---- MODULE Spec2Model ----
(***************************************************************************)
(* A model of the moderngl/pygame renderer: the GraphicsEngine main loop   *)
(* (main.py), the Scene (scene.py), the renderable objects Triangle and    *)
(* Cube (model.py) and the Texture cache (texture.py).                     *)
(*                                                                         *)
(* Matrices are abstracted to what the code does with them: a model matrix *)
(* is its translation column and its accumulated rotation angle about the  *)
(* y axis; the camera's view and projection matrices are opaque integer    *)
(* identifiers.  GPU resources are tracked by the calls made on them.      *)
(***************************************************************************)
EXTENDS Integers, Sequences, FiniteSets, TLC

VARIABLES
    state,       \* "Running" | "Terminated" (sys.exit() reached)
    pc,          \* the statement of GraphicsEngine.run() executed next
    clock,       \* pg.time.get_ticks(), in frame intervals
    time,        \* GraphicsEngine.time
    delta_time,  \* GraphicsEngine.delta_time
    camera,      \* app.camera: [m_proj, m_view]
    grid,        \* the n, s of Scene.load()
    objects,     \* Scene.objects: sequence of renderable objects
    tex,         \* the Texture cache: [keys, textures, gpu]
    trace,       \* the external calls of the current run() iteration
    renderLog,   \* the update/draw calls of the last Scene.render()
    relLog       \* every release() call issued so far, in order

vars == <<state, pc, clock, time, delta_time, camera, grid, objects, tex,
          trace, renderLog, relLog>>

----------------------------------------------------------------------------
(* Bounds *)

MaxClock == 3     \* frames simulated
MaxView == 2      \* camera view matrices are 0..MaxView
MaxEvents == 2    \* events drained by one check_events()
MaxGridN == 2     \* Scene.load()'s n ranges over 1..MaxGridN
MaxObjs == 2      \* objects constructed in the lifecycle harness
MaxRelLog == 9    \* release() calls issued in the lifecycle harness

----------------------------------------------------------------------------
(* model.py: vertex data *)

\* Triangle.get_vertex_data: the three corners, in units of 0.5
TriangleVertexData == << <<-1, -1, 0>>, <<1, -1, 0>>, <<0, 1, 0>> >>

CubeVertices == << <<-1, -1, 1>>, <<1, -1, 1>>, <<1, 1, 1>>, <<-1, 1, 1>>,
                   <<-1, 1, -1>>, <<-1, -1, -1>>, <<1, -1, -1>>, <<1, 1, -1>> >>

CubeIndices == << <<0, 2, 3>>, <<0, 1, 2>>, <<1, 7, 2>>,
                  <<1, 6, 7>>, <<6, 5, 4>>, <<4, 7, 6>>,
                  <<3, 4, 5>>, <<3, 5, 0>>, <<3, 7, 4>>,
                  <<3, 2, 7>>, <<0, 6, 1>>, <<0, 5, 7>> >>

CubeTextCord == << <<0, 0>>, <<1, 0>>, <<1, 1>>, <<0, 1>> >>

CubeTextCordIndices == << <<0, 2, 3>>, <<0, 1, 2>>,
                          <<0, 2, 3>>, <<0, 1, 2>>,
                          <<0, 1, 2>>, <<2, 3, 0>>,
                          <<2, 3, 0>>, <<2, 0, 1>>,
                          <<0, 2, 3>>, <<0, 1, 2>>,
                          <<3, 1, 2>>, <<3, 0, 1>> >>

\* [vertices[i] for i in triangle]; Python indices are 0-based
RECURSIVE PickCorners(_, _)
PickCorners(vertices, triangle) ==
    IF triangle = <<>> THEN <<>>
    ELSE <<vertices[Head(triangle) + 1]>> \o PickCorners(vertices, Tail(triangle))

\* a get_data that drops the last corner of every triangle
RECURSIVE GetDataTwoCorners(_, _)
GetDataTwoCorners(vertices, indices) ==
    IF indices = <<>> THEN <<>>
    ELSE PickCorners(vertices, SubSeq(Head(indices), 1, 2))
             \o GetDataTwoCorners(vertices, Tail(indices))

\* Cube.get_data: [vertices[i] for triangle in indices for i in triangle]
\* (the f4 conversion is exact on the values -1, 0, 1)
RECURSIVE GetData(_, _)
GetData(vertices, indices) ==
    IF indices = <<>> THEN <<>>
    ELSE PickCorners(vertices, Head(indices)) \o GetData(vertices, Tail(indices))

\* np.hstack of two 2-D arrays with the same number of rows
HStack(a, b) == [k \in 1..Len(a) |-> a[k] \o b[k]]

\* Cube.get_vertex_data
CubeGetVertexData ==
    LET text_cord_data == GetData(CubeTextCord, CubeTextCordIndices)
        vertex_data == GetData(CubeVertices, CubeIndices)
    IN  HStack(text_cord_data, vertex_data)

----------------------------------------------------------------------------
(* Matrices *)

\* glm.mat4(): the identity
Mat4 == [trans |-> <<0, 0, 0>>, rot |-> 0]

\* glm.rotate(m, angle, glm.vec3(0, 1, 0)): m * R_y(angle); the translation
\* column of m is kept, the rotation angles about y add up
Rotate(m, angle) == [m EXCEPT !.rot = m.rot + angle]

\* glm.translate(m, pos) of a matrix that has not been rotated yet
Translate(m, pos) ==
    [m EXCEPT !.trans = <<m.trans[1] + pos[1], m.trans[2] + pos[2], m.trans[3] + pos[3]>>]

----------------------------------------------------------------------------
(* camera.py is not part of the sources: the camera is what the objects    *)
(* read from it, app.camera.m_proj and app.camera.m_view                   *)

Views == 0..MaxView

CameraNew == [m_proj |-> 0, m_view |-> 0]

CameraUpdate(cam, v) == [cam EXCEPT !.m_view = v]

----------------------------------------------------------------------------
(* model.py: Triangle and Cube *)

\* Triangle.__init__
Triangle == [kind |-> "Triangle", vbo |-> TriangleVertexData]

\* Cube.get_model_matrix
CubeGetModelMatrix == Mat4

\* Cube.on_init: the uniforms written to the shader program
CubeOnInit(m_model, cam) ==
    [u_texture_0 |-> 0, m_proj |-> cam.m_proj, m_view |-> cam.m_view,
     m_model |-> m_model]

\* Cube.__init__; pos is the position Scene.load() assigns to the object
Cube(cam, pos) ==
    LET m_model == CubeGetModelMatrix
    IN  [kind |-> "Cube", pos |-> pos, vbo |-> CubeGetVertexData,
         m_model |-> m_model, texture |-> "textures/stone.jpg",
         uniforms |-> CubeOnInit(m_model, cam)]

\* Cube.update
CubeUpdate(o, t) ==
    [o EXCEPT !.uniforms.m_model = Rotate(o.m_model, t)]

\* one call on object i, with the uniforms its program holds at the call
Call(op, i, o) == [op |-> op, obj |-> i, uniforms |-> o.uniforms]

\* a render that issues the draw call before the uniform update
CubeRenderDrawFirst(o, i, t) ==
    LET u == CubeUpdate(o, t)
    IN  [obj |-> u, log |-> <<Call("draw", i, o), Call("update", i, u)>>]

\* Cube.render: self.update(); self.vao.render()
CubeRender(o, i, t) ==
    LET u == CubeUpdate(o, t)
    IN  [obj |-> u, log |-> <<Call("update", i, u), Call("draw", i, u)>>]

\* the release() calls of Triangle.destroy and Cube.destroy on object i
ObjDestroy(i) ==
    << [kind |-> "object", id |-> i, res |-> "vao"],
       [kind |-> "object", id |-> i, res |-> "vbo"],
       [kind |-> "object", id |-> i, res |-> "shader_program"] >>

----------------------------------------------------------------------------
(* Cat (scene.py adds one) is not defined in model.py: a renderable object *)
(* as section 4.4 of the specification describes it                        *)

Cat(cam, pos) ==
    LET m_model == Translate(Mat4, pos)
    IN  [kind |-> "Cat", pos |-> pos, vbo |-> <<>>,
         m_model |-> m_model, texture |-> "cat",
         uniforms |-> CubeOnInit(m_model, cam)]

CatUpdate(o, t, cam) ==
    [o EXCEPT !.uniforms.m_proj = cam.m_proj,
              !.uniforms.m_view = cam.m_view,
              !.uniforms.m_model = Rotate(o.m_model, t)]

CatRender(o, i, t, cam) ==
    LET u == CatUpdate(o, t, cam)
    IN  [obj |-> u, log |-> <<Call("update", i, u), Call("draw", i, u)>>]

----------------------------------------------------------------------------
(* scene.py *)

\* range(a, b, s) for s > 0
Range(a, b, s) ==
    [k \in 1..(IF b > a THEN (b - a + s - 1) \div s ELSE 0) |-> a + (k - 1) * s]

\* Scene.load with its locals n and s
SceneLoad(cam, n, s) ==
    LET xs == Range(-n, n, s)
        zs == Range(-n, n, s)
        cubes == [k \in 1..(Len(xs) * Len(zs)) |->
                     Cube(cam, <<xs[((k - 1) \div Len(zs)) + 1], -s,
                                 zs[((k - 1) % Len(zs)) + 1]>>)]
    IN  cubes \o <<Cat(cam, <<0, -1, -10>>)>>

\* obj.render() of the object at index i
ObjRender(o, i, t, cam) ==
    IF o.kind = "Cat" THEN CatRender(o, i, t, cam) ELSE CubeRender(o, i, t)

\* Scene.render: for obj in self.objects: obj.render()
RECURSIVE SceneRenderFrom(_, _, _, _)
SceneRenderFrom(objs, i, t, cam) ==
    IF i > Len(objs) THEN [objects |-> objs, log |-> <<>>]
    ELSE LET r == ObjRender(objs[i], i, t, cam)
             rest == SceneRenderFrom([objs EXCEPT ![i] = r.obj], i + 1, t, cam)
         IN  [objects |-> rest.objects, log |-> r.log \o rest.log]

SceneRender(objs, t, cam) == SceneRenderFrom(objs, 1, t, cam)

----------------------------------------------------------------------------
(* texture.py *)

StonePath == "textures/stone.jpg"
CatPath == "objects/cat/20430_cat_diff_v1.jpg"

TextureEmpty == [keys |-> <<>>, textures |-> [k \in {} |-> 0], gpu |-> <<>>]

\* Texture.get_texture: every call allocates a texture on the context; the
\* handle is the index of the allocation
TextureGetTexture(gpu, path) ==
    Append(gpu, [path |-> path, flip_y |-> TRUE, components |-> 3,
                 anisotropy |-> 32, mipmaps |-> TRUE])

\* self.textures[key] = self.get_texture(path=path)
TextureSet(t, key, path) ==
    LET gpu == TextureGetTexture(t.gpu, path)
    IN  [keys |-> IF key \in DOMAIN t.textures THEN t.keys ELSE Append(t.keys, key),
         textures |-> [k \in DOMAIN t.textures \cup {key} |->
                          IF k = key THEN Len(gpu) ELSE t.textures[k]],
         gpu |-> gpu]

\* Texture.__init__ (the keys 0, 1, 2 are written "0", "1", "2")
TextureNew ==
    LET t0 == TextureSet(TextureEmpty, "0", StonePath)
        t1 == TextureSet(t0, "1", StonePath)
        t2 == TextureSet(t1, "2", StonePath)
    IN  TextureSet(t2, "cat", CatPath)

\* Texture.destroy: tex.release() for every value, in insertion order
TextureDestroy(t) ==
    [k \in 1..Len(t.keys) |->
        [kind |-> "texture", id |-> t.textures[t.keys[k]], res |-> "texture"]]

\* mesh.py is not part of the sources: Mesh owns the texture cache and
\* Mesh.destroy() releases it
MeshDestroy(t) == TextureDestroy(t)

----------------------------------------------------------------------------
(* main.py: GraphicsEngine *)

\* the events pg.event.get() can return, as far as check_events tells them apart
Events == { [type |-> "QUIT", key |-> "none"],
            [type |-> "KEYDOWN", key |-> "K_ESCAPE"],
            [type |-> "KEYDOWN", key |-> "K_w"],
            [type |-> "MOUSEMOTION", key |-> "none"] }

EventQueues == UNION { [1..k -> Events] : k \in 0..MaxEvents }

\* the condition of check_events
IsQuit(event) ==
    event.type = "QUIT" \/ (event.type = "KEYDOWN" /\ event.key = "K_ESCAPE")

\* a loop that updates the camera before it looks at the events
RunStepsCameraFirst ==
    <<"get_time", "camera_update", "check_events", "render", "tick">>

\* the body of the while loop of run(), in order
RunSteps == <<"get_time", "check_events", "camera_update", "render", "tick">>

\* the statement that follows statement p in the loop
NextStep(p) ==
    LET i == CHOOSE k \in DOMAIN RunSteps : RunSteps[k] = p
    IN  RunSteps[(i % Len(RunSteps)) + 1]

\* GraphicsEngine.__init__ and the first entry into run()
Init ==
    /\ state = "Running"
    /\ pc = RunSteps[1]
    /\ clock = 0
    /\ time = 0
    /\ delta_time = 0
    /\ camera = CameraNew
    /\ grid \in [n : 1..MaxGridN, s : {2}]
    /\ objects = SceneLoad(CameraNew, grid.n, grid.s)
    /\ tex = TextureNew
    /\ trace = <<>>
    /\ renderLog = <<>>
    /\ relLog = <<>>

\* self.get_time()
GetTime ==
    /\ state = "Running" /\ pc = "get_time"
    /\ time' = clock
    /\ trace' = <<"get_time">>
    /\ pc' = NextStep(pc)
    /\ UNCHANGED <<state, clock, delta_time, camera, grid, objects, tex,
                   renderLog, relLog>>

\* self.check_events() with pg.event.get() returning queue: the first quit
\* event destroys the mesh and exits, the events after it are never looked at
CheckEvents(queue) ==
    /\ state = "Running" /\ pc = "check_events"
    /\ trace' = Append(trace, "check_events")
    /\ IF \E k \in DOMAIN queue : IsQuit(queue[k])
       THEN /\ relLog' = relLog \o MeshDestroy(tex)
            /\ state' = "Terminated"
            /\ pc' = "exit"
       ELSE /\ pc' = NextStep(pc)
            /\ UNCHANGED <<state, relLog>>
    /\ UNCHANGED <<clock, time, delta_time, camera, grid, objects, tex, renderLog>>

\* self.camera.update(): the input moves the camera to view matrix v
CameraUpdateStep(v) ==
    /\ state = "Running" /\ pc = "camera_update"
    /\ camera' = CameraUpdate(camera, v)
    /\ trace' = Append(trace, "camera_update")
    /\ pc' = NextStep(pc)
    /\ UNCHANGED <<state, clock, time, delta_time, grid, objects, tex,
                   renderLog, relLog>>

\* self.render(): ctx.clear(), scene.render(), pg.display.flip()
Render ==
    /\ state = "Running" /\ pc = "render"
    /\ LET r == SceneRender(objects, time, camera)
       IN  /\ objects' = r.objects
           /\ renderLog' = r.log
    /\ trace' = trace \o <<"clear", "scene_render", "flip">>
    /\ pc' = NextStep(pc)
    /\ UNCHANGED <<state, clock, time, delta_time, camera, grid, tex, relLog>>

\* self.delta_time = self.clock.tick(60): blocks until the frame interval is over
Tick ==
    /\ state = "Running" /\ pc = "tick"
    /\ clock < MaxClock
    /\ clock' = clock + 1
    /\ delta_time' = clock' - clock
    /\ trace' = Append(trace, "tick")
    /\ pc' = NextStep(pc)
    /\ UNCHANGED <<state, time, camera, grid, objects, tex, renderLog, relLog>>

Next ==
    \/ GetTime
    \/ \E queue \in EventQueues : CheckEvents(queue)
    \/ \E v \in Views : CameraUpdateStep(v)
    \/ Render
    \/ Tick

Spec == Init /\ [][Next]_vars

----------------------------------------------------------------------------
(* The objects and the texture cache driven through their public methods    *)
(* by an arbitrary caller: construction, then destroy() any number of times *)

LifeInit ==
    /\ state = "Running"
    /\ pc = RunSteps[1]
    /\ clock = 0
    /\ time = 0
    /\ delta_time = 0
    /\ camera = CameraNew
    /\ grid = [n |-> 0, s |-> 2]
    /\ objects = <<>>
    /\ tex = TextureEmpty
    /\ trace = <<>>
    /\ renderLog = <<>>
    /\ relLog = <<>>

\* Texture(app)
LifeTextureNew ==
    /\ tex = TextureEmpty
    /\ tex' = TextureNew
    /\ UNCHANGED <<state, pc, clock, time, delta_time, camera, grid, objects,
                   trace, renderLog, relLog>>

\* texture.destroy()
LifeTextureDestroy ==
    /\ tex # TextureEmpty
    /\ Len(relLog) + Len(tex.keys) <= MaxRelLog
    /\ relLog' = relLog \o TextureDestroy(tex)
    /\ UNCHANGED <<state, pc, clock, time, delta_time, camera, grid, objects,
                   tex, trace, renderLog>>

\* Triangle(app)
LifeNewTriangle ==
    /\ Len(objects) < MaxObjs
    /\ objects' = Append(objects, Triangle)
    /\ UNCHANGED <<state, pc, clock, time, delta_time, camera, grid, tex,
                   trace, renderLog, relLog>>

\* Cube(app)
LifeNewCube ==
    /\ Len(objects) < MaxObjs
    /\ objects' = Append(objects, Cube(camera, <<0, 0, 0>>))
    /\ UNCHANGED <<state, pc, clock, time, delta_time, camera, grid, tex,
                   trace, renderLog, relLog>>

\* objects[i].destroy()
LifeDestroy(i) ==
    /\ Len(relLog) + Len(ObjDestroy(i)) <= MaxRelLog
    /\ relLog' = relLog \o ObjDestroy(i)
    /\ UNCHANGED <<state, pc, clock, time, delta_time, camera, grid, objects,
                   tex, trace, renderLog>>

LifeNext ==
    \/ LifeTextureNew
    \/ LifeTextureDestroy
    \/ LifeNewTriangle
    \/ LifeNewCube
    \/ \E i \in DOMAIN objects : LifeDestroy(i)

SpecLife == LifeInit /\ [][LifeNext]_vars

----------------------------------------------------------------------------
(* Properties *)

IsPrefix(a, b) == Len(a) <= Len(b) /\ a = SubSeq(b, 1, Len(a))

\* the release() calls issued so far on the resources of object i
ObjReleases(i) ==
    LET calls == SelectSeq(relLog, LAMBDA e : e.kind = "object" /\ e.id = i)
    IN  [k \in DOMAIN calls |-> calls[k].res]

\* the number of release() calls issued so far on texture handle h
TexReleases(h) ==
    Cardinality({k \in DOMAIN relLog : relLog[k].kind = "texture" /\ relLog[k].id = h})

\* the indices of the draw calls of the last Scene.render()
Draws == {k \in DOMAIN renderLog : renderLog[k].op = "draw"}

\* the steps of one iteration as section 4.6 orders them
FrameOrder ==
    <<"get_time", "check_events", "camera_update", "clear", "scene_render",
      "flip", "tick">>

\* C1: while Running, an iteration performs time, events, camera, clear,
\* scene render, present, pacing wait in this order, none skipped or repeated,
\* and the next iteration's time computation starts only after the pacing wait.
C1_StrictOrder ==
    state = "Running" =>
        /\ IsPrefix(trace, FrameOrder)
        /\ pc = "get_time" => trace \in {<<>>, FrameOrder}
        /\ (pc = "get_time" /\ clock > 0) => trace = FrameOrder
        /\ pc = "check_events" => trace = SubSeq(FrameOrder, 1, 1)
        /\ pc = "camera_update" => trace = SubSeq(FrameOrder, 1, 2)
        /\ pc = "render" => trace = SubSeq(FrameOrder, 1, 3)
        /\ pc = "tick" => trace = SubSeq(FrameOrder, 1, 6)

\* two complete iterations have run
C1_Witness ==
    state = "Running" /\ pc = "get_time" /\ clock >= 2 /\ trace = FrameOrder

\* C2: in the Terminated state every scene object's vertex array, buffer and
\* shader program and every cached texture has been released, and nothing of
\* the frame ran after the quit signal was processed.
C2_AllReleasedAtExit ==
    state = "Terminated" =>
        /\ \A i \in DOMAIN objects : ObjReleases(i) = <<"vao", "vbo", "shader_program">>
        /\ \A h \in DOMAIN tex.gpu : TexReleases(h) = 1
        /\ trace = SubSeq(FrameOrder, 1, 2)

\* C3: at every draw call the program's m_proj and m_view equal the camera's
\* current matrices and m_model is the object's model matrix for the current
\* time (checked right after the frame's render, before the camera moves again).
C3_UniformsCurrentAtDraw ==
    (state = "Running" /\ pc = "tick") =>
        \A k \in Draws :
            LET e == renderLog[k]
            IN  /\ e.uniforms.m_proj = camera.m_proj
                /\ e.uniforms.m_view = camera.m_view
                /\ e.uniforms.m_model = Rotate(objects[e.obj].m_model, time)

\* C4: one Scene.render() produces update(o1), draw(o1), update(o2), draw(o2),
\* ... in insertion order, one draw call per object.
C4_UpdateThenDraw ==
    renderLog # <<>> =>
        /\ Len(renderLog) = 2 * Len(objects)
        /\ Cardinality(Draws) = Len(objects)
        /\ \A i \in DOMAIN objects :
               /\ renderLog[2 * i - 1].op = "update" /\ renderLog[2 * i - 1].obj = i
               /\ renderLog[2 * i].op = "draw" /\ renderLog[2 * i].obj = i

\* a scene of several objects has been rendered
C4_Witness == renderLog # <<>> /\ Len(objects) >= 3

\* C5: with n = 2 and s = 2 the scene holds a 2x2 grid of cubes at y = -2 and
\* one render() issues exactly 4 draw calls, one per object, each with a model
\* matrix whose translation is the object's assigned position.
C5_GridDrawCalls ==
    (grid.n = 2 /\ grid.s = 2) =>
        /\ {objects[i].pos : i \in {j \in DOMAIN objects : objects[j].kind = "Cube"}}
               = {<<x, -2, z>> : x \in {-2, 0}, z \in {-2, 0}}
        /\ renderLog # <<>> =>
               /\ Cardinality(Draws) = 4
               /\ \A i \in DOMAIN objects : \E k \in Draws : renderLog[k].obj = i
               /\ \A k \in Draws :
                      renderLog[k].uniforms.m_model.trans = objects[renderLog[k].obj].pos

\* C6: two keys of the cache populated from the same path map to the same
\* texture handle, and one GPU texture is allocated per path.
C6_PathLoadedOnce ==
    /\ \A k1, k2 \in DOMAIN tex.textures :
           tex.gpu[tex.textures[k1]].path = tex.gpu[tex.textures[k2]].path
               => tex.textures[k1] = tex.textures[k2]
    /\ \A h1, h2 \in DOMAIN tex.gpu :
           tex.gpu[h1].path = tex.gpu[h2].path => h1 = h2

\* C7: after any sequence of one or more destroy() calls on an object its
\* vertex array, buffer and shader program are each released exactly once,
\* in this order.
C7_ReleasedExactlyOnce ==
    \A i \in DOMAIN objects :
        ObjReleases(i) \in {<<>>, <<"vao", "vbo", "shader_program">>}

\* C8: for any sequence of Texture.destroy() calls no texture handle is
\* released more than once.
C8_NoDoubleRelease ==
    \A h \in DOMAIN tex.gpu : TexReleases(h) <= 1

\* the three positions of triangle t (0-based) in the rows of a cube's buffer
TrianglePositions(vbo, t) ==
    [c \in 1..3 |-> SubSeq(vbo[3 * t + c], 3, 5)]

\* triangle t lies in the face where coordinate axis has value v
InFace(vbo, t, axis, v) ==
    \A c \in 1..3 : TrianglePositions(vbo, t)[c][axis] = v

\* C9: a cube's vertex data has exactly 36 rows (12 triangles x 3 corners),
\* row k pairing the texture coordinate and the corner position that the two
\* index lists select for corner k.
C9_VertexData ==
    \A i \in DOMAIN objects :
        objects[i].kind = "Cube" =>
            /\ Len(objects[i].vbo) = 36
            /\ \A k \in 1..Len(objects[i].vbo) :
                   LET t == ((k - 1) \div 3) + 1
                       c == ((k - 1) % 3) + 1
                   IN  /\ t <= 12
                       /\ objects[i].vbo[k] =
                              CubeTextCord[CubeTextCordIndices[t][c] + 1]
                                  \o CubeVertices[CubeIndices[t][c] + 1]

\* a cube has been constructed
C9_Witness == \E i \in DOMAIN objects : objects[i].kind = "Cube"

\* C10: every one of the 12 triangles of a cube lies in a face, and each of
\* the 6 faces is covered by exactly 2 triangles.
C10_TrianglesInFaces ==
    \A i \in DOMAIN objects :
        objects[i].kind = "Cube" =>
            /\ \A t \in 0..11 :
                   \E axis \in 1..3, v \in {-1, 1} : InFace(objects[i].vbo, t, axis, v)
            /\ \A axis \in 1..3, v \in {-1, 1} :
                   Cardinality({t \in 0..11 : InFace(objects[i].vbo, t, axis, v)}) = 2

====
